---- MODULE Spec2Model ----
(***************************************************************************)
(* The request-processing pipeline of the lease generator:                 *)
(* exports.handler of src/netlify/functions/generate-lease.js.             *)
(*                                                                         *)
(* Node runs the handler on one thread: the code between two awaits is one *)
(* atomic step, and requests interleave only at the awaits                 *)
(* (rateLimitMiddleware, verifyCaptcha, generateLease, generateLeaseDocx). *)
(* Each action below is one such step of one request.                      *)
(*                                                                         *)
(* lib/rateLimit, lib/captcha, lib/schema, lib/llm, lib/pdf and            *)
(* lib/telemetry are required by the handler but are not among the source  *)
(* files; their behaviour is taken from spec.md (sections 3, 4 and 6).     *)
(***************************************************************************)
EXTENDS Integers, Sequences, FiniteSets, TLC

\* ------------------------------------------------------------------ bounds

\* Largest value of the clock (Date.now()).
MaxClock == 1
\* Rate-limit checks in one behaviour of SpecQuota.
MaxBurst == 4

\* ---------------------------------------------------------- configuration

\* Rate-limit quota per caller and window (spec.md 4.2: "N requests per window").
Quota == 2
\* Length of the rate-limit window, in clock units (spec.md 4.2).
Window == 1

\* The invocations of handler that can be in flight together.
Reqs == {1, 2}
\* Caller identity keys (the caller's network address).
Callers == {"10.0.0.1", "10.0.0.2"}
\* process.env.NODE_ENV
Modes == {"development", "production", "test"}

\* ------------------------------------------------------------- JS values

\* An optional value (undefined, or a value) is a sequence of length <= 1.
None == <<>>
Some(v) == <<v>>
IsSome(o) == Len(o) > 0
Get(o) == o[1]

\* {...a, ...b}: the keys of both, b's value where both have the key.
Spread(a, b) ==
  [k \in (DOMAIN a) \cup (DOMAIN b) |-> IF k \in DOMAIN b THEN b[k] ELSE a[k]]

\* Array.prototype.join on an array of strings.
RECURSIVE Join(_, _)
Join(strs, sep) ==
  IF Len(strs) = 0 THEN ""
  ELSE IF Len(strs) = 1 THEN strs[1]
  ELSE strs[1] \o sep \o Join(Tail(strs), sep)

\* ------------------------------------------------------ Buffer / base64

Base64Alphabet ==
  << "A","B","C","D","E","F","G","H","I","J","K","L","M","N","O","P",
     "Q","R","S","T","U","V","W","X","Y","Z","a","b","c","d","e","f",
     "g","h","i","j","k","l","m","n","o","p","q","r","s","t","u","v",
     "w","x","y","z","0","1","2","3","4","5","6","7","8","9","+","/" >>

Base64Char(n) == Base64Alphabet[n + 1]

\* Buffer.prototype.toString('base64'): three bytes to four characters, the
\* last group padded with "=". The string is kept as its sequence of characters.
RECURSIVE Base64Encode(_)
Base64Encode(bytes) ==
  IF Len(bytes) = 0 THEN <<>>
  ELSE IF Len(bytes) = 1 THEN
    << Base64Char(bytes[1] \div 4), Base64Char((bytes[1] % 4) * 16), "=", "=" >>
  ELSE IF Len(bytes) = 2 THEN
    << Base64Char(bytes[1] \div 4),
       Base64Char((bytes[1] % 4) * 16 + bytes[2] \div 16),
       Base64Char((bytes[2] % 16) * 4), "=" >>
  ELSE
    << Base64Char(bytes[1] \div 4),
       Base64Char((bytes[1] % 4) * 16 + bytes[2] \div 16),
       Base64Char((bytes[2] % 16) * 4 + bytes[3] \div 64),
       Base64Char(bytes[3] % 64) >>
    \o Base64Encode(SubSeq(bytes, 4, Len(bytes)))

\* ------------------------------------------------------------ lib/schema

\* The keys LeaseInputSchema requires, in the schema's order (two of spec.md 3's
\* required records stand for all of them).
RequiredInputKeys == << "landlord", "tenant" >>
\* The keys LeaseInputSchema knows: the required ones and the optional token.
InputSchemaKeys == {"landlord", "tenant", "captchaToken"}

SeqRange(s) == {s[i] : i \in 1..Len(s)}

\* A zod issue.
Issue(path, message) == [path |-> path, message |-> message]

\* LeaseInputSchema.safeParse(body): body is the parsed JSON value. A value that is
\* no object is one issue at the root; an object is one issue per missing required
\* key. On success data holds the schema's keys of the value and no others.
InputIssues(value) ==
  IF value.kind # "object" THEN << Issue(<<>>, "Expected object") >>
  ELSE LET missing == SelectSeq(RequiredInputKeys, LAMBDA k : k \notin value.keys)
       IN  [i \in 1..Len(missing) |-> Issue(<< missing[i] >>, "Required")]

LeaseInputSafeParse(value) ==
  LET issues == InputIssues(value)
  IN  IF Len(issues) > 0
      THEN [success |-> FALSE, errors |-> issues, data |-> None]
      ELSE [success |-> TRUE, errors |-> <<>>,
            data |-> Some([kind |-> "object",
                           keys |-> value.keys \cap InputSchemaKeys,
                           captchaToken |-> value.captchaToken])]

\* The field paths LeaseOutputSchema requires, in the schema's order.
RequiredOutputPaths == << <<"financials", "monthlyRent">>, <<"landlord", "name">> >>

\* LeaseOutputSchema.safeParse(leaseData): leaseData is the set of field paths the
\* generator filled in.
OutputIssues(leaseData) ==
  LET missing == SelectSeq(RequiredOutputPaths, LAMBDA p : p \notin leaseData.paths)
  IN  [i \in 1..Len(missing) |-> Issue(missing[i], "Required")]

LeaseOutputSafeParse(leaseData) ==
  LET issues == OutputIssues(leaseData)
  IN  [success |-> Len(issues) = 0, errors |-> issues]

\* --------------------------------------------------------------- inputs

\* event.body. "null": the event carries no body (JSON.parse(null) is null);
\* "malformed": text that is no JSON; "object": the text of a JSON record with the
\* given keys, captchaToken among them when the option holds a value.
NullBody == [kind |-> "null", keys |-> {}, captchaToken |-> None]
MalformedBody == [kind |-> "malformed", keys |-> {}, captchaToken |-> None]
ObjectBody(keys, token) ==
  [kind |-> "object",
   keys |-> keys \cup (IF IsSome(token) THEN {"captchaToken"} ELSE {}),
   captchaToken |-> token]

\* The bodies sent: none, no JSON, and records that are complete (with a key the
\* schema does not know, or with an empty token) or lack required keys, with and
\* without a token.
Bodies ==
  { NullBody, MalformedBody,
    ObjectBody({"landlord", "tenant", "unknownKey"}, None),
    ObjectBody({"landlord", "tenant", "unknownKey"}, Some("tok")),
    ObjectBody({"landlord", "tenant"}, Some("")),
    ObjectBody({"tenant"}, Some("tok")),
    ObjectBody({}, None) }

Event(method, caller, body) == [httpMethod |-> method, caller |-> caller, body |-> body]
\* The requests of Spec: one caller, a preflight and a POST of every body.
Events ==
  {Event("OPTIONS", "10.0.0.1", NullBody)}
  \cup {Event("POST", "10.0.0.1", b) : b \in Bodies}
\* The requests of SpecQuota: every caller, an empty record as the body (the
\* request ends at the first stage behind the rate-limit gate that reads it).
BurstEvents == {Event("POST", c, ObjectBody({}, None)) : c \in Callers}

\* A thrown value: an Error (message, stack) or something that is no Error.
Err(name, message) ==
  [isError |-> TRUE, message |-> message,
   stack |-> name \o ": " \o message \o "\n    at handler"]
NonError == [isError |-> FALSE, message |-> "", stack |-> ""]

\* JSON.parse(event.body)
JSONParse(body) ==
  IF body.kind = "malformed"
  THEN [ok |-> FALSE, value |-> NullBody,
        error |-> Err("SyntaxError", "Unexpected token in JSON at position 0")]
  ELSE [ok |-> TRUE, value |-> body, error |-> NonError]

\* What verifyCaptcha(token) can do: resolve true or false, or reject.
VerifyOutcomes ==
  { [threw |-> FALSE, verified |-> TRUE, error |-> NonError],
    [threw |-> FALSE, verified |-> FALSE, error |-> NonError],
    [threw |-> TRUE, verified |-> FALSE,
     error |-> Err("Error", "captcha service unreachable")] }

\* Generator records: the field paths filled in.
CompleteLease == [paths |-> SeqRange(RequiredOutputPaths)]
Usage(p, c) == [promptTokens |-> p, completionTokens |-> c]
NoResult == [leaseData |-> [paths |-> {}], tokenUsage |-> Usage(0, 0), estimatedCost |-> 0]

\* What llmProvider.generateLease(input) can do: resolve with a record, its usage
\* and its cost, or reject with an Error or with a value that is no Error.
GenerateResults ==
  { [leaseData |-> CompleteLease, tokenUsage |-> Usage(1, 1), estimatedCost |-> 1],
    [leaseData |-> CompleteLease, tokenUsage |-> Usage(1, 2), estimatedCost |-> 2],
    [leaseData |-> [paths |-> { <<"landlord", "name">> }],
     tokenUsage |-> Usage(1, 1), estimatedCost |-> 1],
    [leaseData |-> [paths |-> {}], tokenUsage |-> Usage(1, 2), estimatedCost |-> 2] }
GenerateOutcomes ==
  { [threw |-> FALSE, error |-> NonError, result |-> g] : g \in GenerateResults }
  \cup
  { [threw |-> TRUE, error |-> e, result |-> NoResult]
      : e \in {Err("Error", "LLM backend unavailable"), NonError} }

\* What generateLeaseDocx(leaseData) can do: resolve with bytes, or reject.
DocxBuffers == { <<80, 75, 3, 4>>, <<255, 254>> }
RenderOutcomes ==
  { [threw |-> FALSE, error |-> NonError, bytes |-> b] : b \in DocxBuffers }
  \cup
  { [threw |-> TRUE, error |-> Err("Error", "docx rendering failed"), bytes |-> <<>>] }

\* lib/pdf
getDocumentExtension(format) == "." \o format
getDocumentMimeType(format) ==
  "application/vnd.openxmlformats-officedocument.wordprocessingml.document"

\* ---------------------------------------------------------------- state

VARIABLES
  captchaRequired,  \* what isCaptchaRequired() returns (configuration)
  nodeEnv,          \* process.env.NODE_ENV
  now,              \* the clock, Date.now()
  store,            \* the rate limiter's counters, one per caller
  telemetry,        \* lib/telemetry: the usage records logged, the day's cost
  req,              \* per invocation of handler: its position and its locals
  decisions         \* history: the rate limiter's decisions, oldest first

vars == << captchaRequired, nodeEnv, now, store, telemetry, req, decisions >>

\* ---------------------------------------------------------- lib/rateLimit

\* RateLimitCheck refusing only above the quota (> for >=): one request too many
\* passes.
RateLimitCheckOffByOne(st, key, t) ==
  LET old   == st[key]
      entry == IF t >= old.resetTime
               THEN [count |-> 0, resetTime |-> t + Window] ELSE old
  IN  IF entry.count > Quota
      THEN [store  |-> [st EXCEPT ![key] = entry],
            result |-> [success |-> FALSE, remaining |-> 0,
                        resetTime |-> entry.resetTime, status |-> 429,
                        error |-> "Too many requests"]]
      ELSE [store  |-> [st EXCEPT ![key] = [entry EXCEPT !.count = @ + 1]],
            result |-> [success |-> TRUE, remaining |-> Quota - (entry.count + 1),
                        resetTime |-> entry.resetTime, status |-> 200,
                        error |-> ""]]

\* rateLimitMiddleware(event), for the caller key of the event at time t: a counter
\* whose window has elapsed starts again; a counter at the quota refuses; any other
\* is advanced by one. Returns the new counters and the decision.
RateLimitCheck(st, key, t) ==
  LET old   == st[key]
      entry == IF t >= old.resetTime
               THEN [count |-> 0, resetTime |-> t + Window] ELSE old
  IN  IF entry.count >= Quota
      THEN [store  |-> [st EXCEPT ![key] = entry],
            result |-> [success |-> FALSE, remaining |-> 0,
                        resetTime |-> entry.resetTime, status |-> 429,
                        error |-> "Too many requests"]]
      ELSE [store  |-> [st EXCEPT ![key] = [entry EXCEPT !.count = @ + 1]],
            result |-> [success |-> TRUE, remaining |-> Quota - (entry.count + 1),
                        resetTime |-> entry.resetTime, status |-> 200,
                        error |-> ""]]

\* rateLimit.headers of a refusal.
RateLimitHeaders(rl) ==
  ("X-Rate-Limit-Remaining" :> ToString(rl.remaining))
  @@ ("X-Rate-Limit-Reset" :> ToString(rl.resetTime))

\* ---------------------------------------------------------- lib/telemetry

logTokenUsage(t, usage) == [t EXCEPT !.logged = @ + 1]
trackDailyCost(t, cost) == [t EXCEPT !.dailyCost = @ + cost]

\* ------------------------------------------------------------ the handler

\* const headers (lines 10-14)
Headers ==
  ("Access-Control-Allow-Origin" :> "*")
  @@ ("Access-Control-Allow-Headers" :> "Content-Type")
  @@ ("Access-Control-Allow-Methods" :> "GET, POST, OPTIONS")

\* The stages of the pipeline, in the order of the handler's text.
StageOrder ==
  << "RateLimit", "ChallengeVerify", "InputValidate", "Generate",
     "OutputValidate", "Telemetry", "Render", "Respond" >>

NoEvent == [httpMethod |-> "", caller |-> "", body |-> NullBody]
NoDecision ==
  [success |-> FALSE, remaining |-> 0, resetTime |-> 0, status |-> 0, error |-> ""]
NoResponse == [statusCode |-> 0, headers |-> Headers, body |-> ""]

\* One invocation of handler. pc is the await it is suspended at ("idle": not
\* invoked, "done": it has returned); event, rateLimit, body, leaseData are its
\* locals. The rest records what it did: the stages entered, each with its result
\* ("pending" while awaited), the functions called, the arguments passed, the
\* number of console.error calls and the value returned.
Idle ==
  [pc |-> "idle", event |-> NoEvent, rateLimit |-> NoDecision, body |-> NullBody,
   leaseData |-> [paths |-> {}], stages |-> <<>>, calls |-> <<>>,
   verifyArg |-> None, captchaVerified |-> None, generateArg |-> None, usageArg |-> None, costArg |-> None,
   renderArg |-> None, docxBuffer |-> None, thrown |-> None, errorLogs |-> 0,
   response |-> NoResponse]

Enter(q, stage) ==
  [q EXCEPT !.stages = Append(@, [stage |-> stage, result |-> "pending"])]
Settle(q, result) ==
  LET n == Len(q.stages)
  IN  [q EXCEPT !.stages[n].result = result]
Call(q, fn) == [q EXCEPT !.calls = Append(@, fn)]

\* Return leaving the handler running after the response is given: the code
\* behind the return goes on at the next resumption.
ReturnAndGoOn(q, response) == [q EXCEPT !.response = response]

\* return <response> (the handler's promise resolves).
Return(q, response) == [q EXCEPT !.pc = "done", !.response = response]

\* CatchBlock throwing the error again after logging it: the handler's promise
\* rejects and nothing is returned.
CatchBlockRethrow(q, error) == [q EXCEPT !.pc = "rejected", !.errorLogs = @ + 2]

\* CatchBlock sending errorStack as details whatever NODE_ENV is.
CatchBlockDetailsAlways(q, error) ==
  LET errorMessage == IF error.isError THEN error.message ELSE "Unknown error"
      errorStack   == IF error.isError THEN error.stack ELSE "No stack trace"
  IN  Return([q EXCEPT !.errorLogs = @ + 2],
             [statusCode |-> 500, headers |-> Headers,
              body |-> [success |-> FALSE, error |-> "Internal server error",
                        message |-> "An unexpected error occurred: "
                                    \o errorMessage \o ". Please try again.",
                        details |-> errorStack]])

\* The catch block (lines 128-150). JSON.stringify leaves out a key whose value is
\* undefined, so details is a key of the body in development mode only.
CatchBlock(q, error) ==
  LET errorMessage == IF error.isError THEN error.message ELSE "Unknown error"
      errorStack   == IF error.isError THEN error.stack ELSE "No stack trace"
      message == "An unexpected error occurred: " \o errorMessage
                 \o ". Please try again."
      body == IF nodeEnv = "development"
              THEN [success |-> FALSE, error |-> "Internal server error",
                    message |-> message, details |-> errorStack]
              ELSE [success |-> FALSE, error |-> "Internal server error",
                    message |-> message]
  IN  Return([q EXCEPT !.errorLogs = @ + 2],
             [statusCode |-> 500, headers |-> Headers, body |-> body])

\* A statement of the try block (lines 25-127) throws: control passes to the catch
\* block with the thrown value.
Throw(q, error) == CatchBlock([q EXCEPT !.thrown = Some(error)], error)

\* GenerateInput handing over the request body instead of the validated value.
GenerateInputRawBody(body, inputValidation) == body

\* The value handed to generateLease (line 83).
GenerateInput(body, inputValidation) == Get(inputValidation.data)

\* InputValidation without the return of line 69: a rejected body is logged and
\* generation goes ahead.
InputValidationNoReturn(q) ==
  LET inputValidation == LeaseInputSafeParse(q.body)
      q1 == Call(Enter(q, "InputValidate"), "LeaseInputSchema.safeParse")
      q2 == IF inputValidation.success THEN Settle(q1, "ok")
            ELSE [Settle(q1, "failed") EXCEPT !.errorLogs = @ + 1]
  IN  [Call(Enter(q2, "Generate"), "generateLease") EXCEPT
         !.pc = "generate", !.generateArg = Some(q.body)]

\* 3. Input Validation and the call of 4. (lines 65-83).
InputValidation(q) ==
  LET inputValidation == LeaseInputSafeParse(q.body)
      q1 == Call(Enter(q, "InputValidate"), "LeaseInputSchema.safeParse")
  IN  IF ~inputValidation.success
      THEN Return([Settle(q1, "failed") EXCEPT !.errorLogs = @ + 1],
                  [statusCode |-> 400, headers |-> Headers,
                   body |-> [success |-> FALSE, error |-> "Invalid input data",
                             details |-> inputValidation.errors]])
      ELSE LET q2 == Call(Enter(Settle(q1, "ok"), "Generate"), "generateLease")
           IN  [q2 EXCEPT !.pc = "generate",
                          !.generateArg = Some(GenerateInput(q.body, inputValidation))]

\* CaptchaStage testing captchaToken === undefined instead of !captchaToken: an
\* empty token is sent to the verification service.
CaptchaStageUndefinedOnly(q) ==
  IF ~captchaRequired THEN InputValidation(q)
  ELSE LET q1 == Enter(q, "ChallengeVerify")
       IN  IF ~IsSome(q.body.captchaToken)
           THEN Return(Settle(q1, "failed"),
                  [statusCode |-> 400, headers |-> Headers,
                   body |-> [success |-> FALSE, error |-> "Captcha token missing"]])
           ELSE [Call(q1, "verifyCaptcha") EXCEPT
                   !.pc = "verify", !.verifyArg = q.body.captchaToken]

\* 2. Captcha Verification up to the call of verifyCaptcha (lines 45-55); reading
\* captchaToken of null throws a TypeError.
CaptchaStage(q) ==
  IF ~captchaRequired THEN InputValidation(q)
  ELSE LET q1 == Enter(q, "ChallengeVerify")
       IN  IF q.body.kind = "null"
           THEN Throw(Settle(q1, "failed"),
                  Err("TypeError", "Cannot read properties of null (reading 'captchaToken')"))
           ELSE LET captchaToken == q.body.captchaToken
                IN  IF ~IsSome(captchaToken) \/ Get(captchaToken) = ""
                    THEN Return(Settle(q1, "failed"),
                           [statusCode |-> 400, headers |-> Headers,
                            body |-> [success |-> FALSE,
                                      error |-> "Captcha token missing"]])
                    ELSE [Call(q1, "verifyCaptcha") EXCEPT
                            !.pc = "verify", !.verifyArg = captchaToken]

\* AfterRateLimit answering a refusal without rateLimit.headers.
AfterRateLimitNoBackoff(q) ==
  IF ~q.rateLimit.success
  THEN Return(Settle(q, "failed"),
         [statusCode |-> q.rateLimit.status, headers |-> Headers,
          body |-> [success |-> FALSE, error |-> q.rateLimit.error]])
  ELSE LET parsed == JSONParse(q.event.body)
       IN  IF ~parsed.ok THEN Throw(Settle(q, "ok"), parsed.error)
           ELSE CaptchaStage([Settle(q, "ok") EXCEPT !.body = parsed.value])

\* After await rateLimitMiddleware(event): lines 28-43, then stage 2.
AfterRateLimit(q) ==
  LET rateLimit == q.rateLimit
  IN  IF ~rateLimit.success
      THEN Return(Settle(q, "failed"),
             [statusCode |-> rateLimit.status,
              headers |-> Spread(Headers, RateLimitHeaders(rateLimit)),
              body |-> [success |-> FALSE, error |-> rateLimit.error]])
      ELSE LET parsed == JSONParse(q.event.body)
           IN  IF ~parsed.ok THEN Throw(Settle(q, "ok"), parsed.error)
               ELSE CaptchaStage([Settle(q, "ok") EXCEPT !.body = parsed.value])

\* AfterVerifyCaptcha without the return of line 57: a rejected token goes on to
\* input validation.
AfterVerifyCaptchaNoReturn(q, outcome) ==
  IF outcome.threw THEN Throw(Settle(q, "failed"), outcome.error)
  ELSE InputValidation(
         Settle([q EXCEPT !.captchaVerified = Some(outcome.verified)],
                IF outcome.verified THEN "ok" ELSE "failed"))

\* After await verifyCaptcha(captchaToken): lines 55-63, then stage 3.
AfterVerifyCaptcha(q, outcome) ==
  IF outcome.threw THEN Throw(Settle(q, "failed"), outcome.error)
  ELSE LET q1 == [q EXCEPT !.captchaVerified = Some(outcome.verified)]
       IN  IF ~outcome.verified
           THEN Return(Settle(q1, "failed"),
                  [statusCode |-> 403, headers |-> Headers,
                   body |-> [success |-> FALSE,
                             error |-> "Captcha verification failed"]])
           ELSE InputValidation(Settle(q1, "ok"))

\* MissingFieldsMessage naming the first offending field only.
MissingFieldsMessageFirstOnly(errors) ==
  "Missing or invalid fields: " \o Join(errors[1].path, ".")
  \o ". Please try again."

\* The 422 message (lines 91 and 98).
MissingFieldsMessage(errors) ==
  LET missingFields == [i \in 1..Len(errors) |-> Join(errors[i].path, ".")]
  IN  "Missing or invalid fields: " \o Join(missingFields, ", ")
      \o ". Please try again."

\* GenerateLeaseRejected calling the generator once more before giving up.
GenerateLeaseRejectedRetry(q, error) ==
  IF Len(SelectSeq(q.calls, LAMBDA fn : fn = "generateLease")) < 2
  THEN Call(q, "generateLease")
  ELSE Throw(Settle(q, "failed"), error)

\* await llmProvider.generateLease(validatedInput) rejects (line 83): the await
\* throws the reason inside the try block.
GenerateLeaseRejected(q, error) == Throw(Settle(q, "failed"), error)

\* After await llmProvider.generateLease(validatedInput): 5. and 6. and the call
\* of 7. (lines 83-109). Returns the invocation and the telemetry store.
AfterGenerateLease(q, t, outcome) ==
  IF outcome.threw
  THEN [req |-> GenerateLeaseRejected(q, outcome.error), telemetry |-> t]
  ELSE
    LET leaseData == outcome.result.leaseData
        outputValidation == LeaseOutputSafeParse(leaseData)
        q1 == [Call(Enter(Settle(q, "ok"), "OutputValidate"),
                    "LeaseOutputSchema.safeParse") EXCEPT !.leaseData = leaseData]
    IN  IF ~outputValidation.success
        THEN [req |-> Return([Settle(q1, "failed") EXCEPT !.errorLogs = @ + 2],
                        [statusCode |-> 422, headers |-> Headers,
                         body |-> [success |-> FALSE,
                                   error |-> "Invalid lease data generated",
                                   message |-> MissingFieldsMessage(outputValidation.errors),
                                   details |-> outputValidation.errors]]),
              telemetry |-> t]
        ELSE
          LET q2 == Call(Call(Enter(Settle(q1, "ok"), "Telemetry"),
                              "logTokenUsage"), "trackDailyCost")
              q3 == Call(Enter(Settle(q2, "ok"), "Render"), "generateLeaseDocx")
          IN  [req |-> [q3 EXCEPT !.pc = "render",
                                  !.usageArg = Some(outcome.result.tokenUsage),
                                  !.costArg = Some(outcome.result.estimatedCost),
                                  !.renderArg = Some(leaseData)],
               telemetry |-> trackDailyCost(
                               logTokenUsage(t, outcome.result.tokenUsage),
                               outcome.result.estimatedCost)]

\* The body of the 200 response (line 124).
ResponseBody(docxBuffer) == Base64Encode(docxBuffer)

\* SuccessHeaders with the two rate-limit values exchanged.
SuccessHeadersSwapped(rateLimit, filename) ==
  Spread(("Content-Type" :> getDocumentMimeType("docx"))
         @@ ("Content-Disposition" :> "attachment; filename=\"" \o filename \o "\"")
         @@ ("X-Rate-Limit-Remaining" :> ToString(rateLimit.resetTime))
         @@ ("X-Rate-Limit-Reset" :> ToString(rateLimit.remaining)),
         Headers)

\* The headers of the 200 response (lines 117-123).
SuccessHeaders(rateLimit, filename) ==
  Spread(("Content-Type" :> getDocumentMimeType("docx"))
         @@ ("Content-Disposition" :> "attachment; filename=\"" \o filename \o "\"")
         @@ ("X-Rate-Limit-Remaining" :> ToString(rateLimit.remaining))
         @@ ("X-Rate-Limit-Reset" :> ToString(rateLimit.resetTime)),
         Headers)

\* After await generateLeaseDocx(leaseData): lines 109-126, at time t.
AfterGenerateLeaseDocx(q, outcome, t) ==
  IF outcome.threw THEN Throw(Settle(q, "failed"), outcome.error)
  ELSE
    LET docxBuffer == outcome.bytes
        filename == "lease-" \o ToString(t) \o getDocumentExtension("docx")
        q1 == Settle(Enter(Settle(q, "ok"), "Respond"), "ok")
    IN  Return([q1 EXCEPT !.docxBuffer = Some(docxBuffer)],
               [statusCode |-> 200,
                headers |-> SuccessHeaders(q.rateLimit, filename),
                body |-> ResponseBody(docxBuffer),
                isBase64Encoded |-> TRUE])

\* ---------------------------------------------------------------- actions

Config ==
  /\ captchaRequired \in BOOLEAN
  /\ nodeEnv \in Modes
  /\ now = 0
  /\ telemetry = [logged |-> 0, dailyCost |-> 0]
  /\ req = [r \in Reqs |-> Idle]
  /\ decisions = <<>>

ColdStore == [c \in Callers |-> [count |-> 0, resetTime |-> 0]]

\* The counters the process can hold at time 0: nothing yet, or a window opened at
\* time 0 by earlier requests, with 1..Quota of them counted.
WarmStores ==
  [Callers -> {[count |-> 0, resetTime |-> 0]}
              \cup {[count |-> k, resetTime |-> Window] : k \in 1..Quota}]

\* The process at time 0, whatever requests it has answered before.
Init == Config /\ store \in {st \in WarmStores : st["10.0.0.2"].count = 0}

\* The process as started.
InitQuota == Config /\ store = ColdStore

\* Invoke with the preflight answered behind the rate-limit check: an OPTIONS
\* request is counted against the caller's quota.
InvokeRateLimitFirst(r, event) ==
  /\ req[r].pc = "idle"
  /\ LET checked == RateLimitCheck(store, event.caller, now)
     IN  /\ store' = checked.store
         /\ decisions' = Append(decisions,
                           [caller |-> event.caller, at |-> now,
                            decision |-> checked.result])
         /\ req' = [req EXCEPT ![r] =
                      IF event.httpMethod = "OPTIONS"
                      THEN Return([Idle EXCEPT !.event = event],
                                  [statusCode |-> 200, headers |-> Headers,
                                   body |-> ""])
                      ELSE [Call(Enter(Idle, "RateLimit"), "rateLimitMiddleware")
                              EXCEPT !.pc = "rateLimit", !.event = event,
                                     !.rateLimit = checked.result]]
  /\ UNCHANGED << captchaRequired, nodeEnv, now, telemetry >>

\* The runtime invokes handler(event): lines 8-27. A preflight returns at once;
\* any other request calls rateLimitMiddleware and awaits it.
Invoke(r, event) ==
  /\ req[r].pc = "idle"
  /\ IF event.httpMethod = "OPTIONS"
     THEN /\ req' = [req EXCEPT ![r] =
                       Return([Idle EXCEPT !.event = event],
                              [statusCode |-> 200, headers |-> Headers, body |-> ""])]
          /\ UNCHANGED << store, decisions >>
     ELSE LET checked == RateLimitCheck(store, event.caller, now)
          IN  /\ store' = checked.store
              /\ decisions' = Append(decisions,
                                [caller |-> event.caller, at |-> now,
                                 decision |-> checked.result])
              /\ req' = [req EXCEPT ![r] =
                           [Call(Enter(Idle, "RateLimit"), "rateLimitMiddleware")
                              EXCEPT !.pc = "rateLimit", !.event = event,
                                     !.rateLimit = checked.result]]
  /\ UNCHANGED << captchaRequired, nodeEnv, now, telemetry >>

\* ResumeRateLimit going on only while no other request is inside one of the
\* awaited calls behind the gate (a lock held across verifyCaptcha, generateLease
\* and generateLeaseDocx).
ResumeRateLimitLocked(r) ==
  /\ req[r].pc = "rateLimit"
  /\ \A p \in Reqs \ {r} : req[p].pc \notin {"verify", "generate", "render"}
  /\ req' = [req EXCEPT ![r] = AfterRateLimit(req[r])]
  /\ UNCHANGED << captchaRequired, nodeEnv, now, store, telemetry, decisions >>

ResumeRateLimit(r) ==
  /\ req[r].pc = "rateLimit"
  /\ req' = [req EXCEPT ![r] = AfterRateLimit(req[r])]
  /\ UNCHANGED << captchaRequired, nodeEnv, now, store, telemetry, decisions >>

ResumeVerifyCaptcha(r, outcome) ==
  /\ req[r].pc = "verify"
  /\ req' = [req EXCEPT ![r] = AfterVerifyCaptcha(req[r], outcome)]
  /\ UNCHANGED << captchaRequired, nodeEnv, now, store, telemetry, decisions >>

ResumeGenerateLease(r, outcome) ==
  /\ req[r].pc = "generate"
  /\ LET after == AfterGenerateLease(req[r], telemetry, outcome)
     IN  /\ req' = [req EXCEPT ![r] = after.req]
         /\ telemetry' = after.telemetry
  /\ UNCHANGED << captchaRequired, nodeEnv, now, store, decisions >>

\* ResumeGenerateLeaseDocx taking the cost of the generation back out of the
\* day's total when rendering fails.
ResumeGenerateLeaseDocxCompensating(r, outcome) ==
  /\ req[r].pc = "render"
  /\ req' = [req EXCEPT ![r] = AfterGenerateLeaseDocx(req[r], outcome, now)]
  /\ telemetry' = IF outcome.threw
                  THEN [telemetry EXCEPT !.dailyCost = @ - Get(req[r].costArg)]
                  ELSE telemetry
  /\ UNCHANGED << captchaRequired, nodeEnv, now, store, decisions >>

ResumeGenerateLeaseDocx(r, outcome) ==
  /\ req[r].pc = "render"
  /\ req' = [req EXCEPT ![r] = AfterGenerateLeaseDocx(req[r], outcome, now)]
  /\ UNCHANGED << captchaRequired, nodeEnv, now, store, telemetry, decisions >>

\* The runtime has sent the response; the invocation is over.
Release(r) ==
  /\ req[r].pc = "done"
  /\ req' = [req EXCEPT ![r] = Idle]
  /\ UNCHANGED << captchaRequired, nodeEnv, now, store, telemetry, decisions >>

\* Time passes.
Tick ==
  /\ now < MaxClock
  /\ now' = now + 1
  /\ UNCHANGED << captchaRequired, nodeEnv, store, telemetry, req, decisions >>

\* Invocations are interchangeable: the lowest idle one takes the next request.
LowestIdle(r) == \A p \in Reqs : p < r => req[p].pc # "idle"

\* Two requests, each any of Events, in any interleaving.
Next ==
  \/ \E r \in Reqs, event \in Events : LowestIdle(r) /\ Invoke(r, event)
  \/ \E r \in Reqs : ResumeRateLimit(r)
  \/ \E r \in Reqs, outcome \in VerifyOutcomes : ResumeVerifyCaptcha(r, outcome)
  \/ \E r \in Reqs, outcome \in GenerateOutcomes : ResumeGenerateLease(r, outcome)
  \/ \E r \in Reqs, outcome \in RenderOutcomes : ResumeGenerateLeaseDocx(r, outcome)
  \/ Tick

Spec == Init /\ [][Next]_vars

\* A step of the handler after an await: the awaited promise has settled.
Resume ==
  \/ \E r \in Reqs : ResumeRateLimit(r)
  \/ \E r \in Reqs, outcome \in VerifyOutcomes : ResumeVerifyCaptcha(r, outcome)
  \/ \E r \in Reqs, outcome \in GenerateOutcomes : ResumeGenerateLease(r, outcome)
  \/ \E r \in Reqs, outcome \in RenderOutcomes : ResumeGenerateLeaseDocx(r, outcome)

\* The promises the handler awaits (rateLimitMiddleware, verifyCaptcha,
\* generateLease, generateLeaseDocx) settle, and the event loop then resumes a
\* handler that waits: while one waits, one is resumed.
AwaitsSettle == WF_vars(Resume)

\* The requests of Spec, every awaited call settling.
SpecLive == Init /\ [][Next]_vars /\ AwaitsSettle

\* A burst of up to MaxBurst requests of the callers, answered and released.
NextQuota ==
  \/ \E r \in Reqs, event \in BurstEvents :
       Len(decisions) < MaxBurst /\ LowestIdle(r) /\ Invoke(r, event)
  \/ \E r \in Reqs : ResumeRateLimit(r)
  \/ \E r \in Reqs : Release(r)
  \/ Tick

SpecQuota == InitQuota /\ [][NextQuota]_vars

\* ------------------------------------------------------------ properties

Count(calls, fn) == Cardinality({i \in 1..Len(calls) : calls[i] = fn})
Called(q, fn) == Count(q.calls, fn) > 0
StageNames(q) == [i \in 1..Len(q.stages) |-> q.stages[i].stage]
Entered(q, stage) == \E i \in 1..Len(q.stages) : q.stages[i].stage = stage
ResultOf(q, stage) ==
  LET i == CHOOSE j \in 1..Len(q.stages) : q.stages[j].stage = stage
  IN  q.stages[i].result
Failed(q, stage) == Entered(q, stage) /\ ResultOf(q, stage) = "failed"
Passed(q, stage) == Entered(q, stage) /\ ResultOf(q, stage) = "ok"
IsPost(q) == q.pc # "idle" /\ q.event.httpMethod # "OPTIONS"
Done(q) == q.pc = "done"

\* The stages of a request under the configuration: ChallengeVerify only when
\* isCaptchaRequired() is true.
ExpectedStages ==
  IF captchaRequired THEN StageOrder
  ELSE SelectSeq(StageOrder, LAMBDA s : s # "ChallengeVerify")

\* C1: the stages a non-OPTIONS request has entered are an initial part of
\* RateLimit, ChallengeVerify (when required), InputValidate, Generate,
\* OutputValidate, Telemetry, Render, Respond, in that order; every stage before the
\* last one entered has succeeded; a stage that failed is the last one entered and
\* the handler has returned; a stage still awaited is the last one entered.
C1_StagesInOrder ==
  \A r \in Reqs :
    LET q == req[r]
        n == Len(q.stages)
    IN  IsPost(q) =>
          /\ n >= 1 /\ n <= Len(ExpectedStages)
          /\ StageNames(q) = SubSeq(ExpectedStages, 1, n)
          /\ \A i \in 1..(n - 1) : q.stages[i].result = "ok"
          /\ q.stages[n].result = "failed" => Done(q)
          /\ q.stages[n].result = "pending" <=> ~Done(q)
          /\ IsSome(q.thrown) => Done(q) /\ q.response.statusCode = 500

\* One request went through all eight stages and another stopped at a stage that
\* failed before the last.
C1_Witness ==
  /\ captchaRequired
  /\ Done(req[1]) /\ StageNames(req[1]) = StageOrder
  /\ Done(req[2]) /\ Failed(req[2], "OutputValidate")

\* C2: a request the rate limiter refuses is answered with the limiter's status
\* (429), the limiter's remaining and reset values in the X-Rate-Limit headers and
\* its error, and calls nothing but the rate limiter: no verifier, validator,
\* generator, telemetry or renderer.
C2_RateLimitedIsTerminal ==
  \A r \in Reqs :
    LET q == req[r]
    IN  (IsPost(q) /\ ~q.rateLimit.success) =>
          /\ q.calls = << "rateLimitMiddleware" >>
          /\ StageNames(q) = << "RateLimit" >>
          /\ Done(q) =>
               /\ q.response.statusCode = 429
               /\ {"X-Rate-Limit-Remaining", "X-Rate-Limit-Reset"}
                    \subseteq DOMAIN q.response.headers
               /\ q.response.headers["X-Rate-Limit-Remaining"]
                    = ToString(q.rateLimit.remaining)
               /\ q.response.headers["X-Rate-Limit-Reset"]
                    = ToString(q.rateLimit.resetTime)
               /\ \A h \in DOMAIN Headers : q.response.headers[h] = Headers[h]
               /\ q.response.body = [success |-> FALSE, error |-> "Too many requests"]

\* A refused request has been answered, while another request of the same caller is
\* in the pipeline behind the gate.
C2_Witness ==
  /\ Done(req[2]) /\ IsPost(req[2]) /\ ~req[2].rateLimit.success
  /\ req[1].pc = "generate"

NoToken(body) == ~IsSome(body.captchaToken) \/ Get(body.captchaToken) = ""

C4_RejectedTokenIsForbidden ==
  \A r \in Reqs :
    LET q == req[r]
    IN  q.captchaVerified = Some(FALSE) =>
          /\ Done(q)
          /\ q.calls = << "rateLimitMiddleware", "verifyCaptcha" >>
          /\ q.verifyArg = q.event.body.captchaToken
          /\ StageNames(q) = << "RateLimit", "ChallengeVerify" >>
          /\ q.response.statusCode = 403
          /\ q.response.body
               = [success |-> FALSE, error |-> "Captcha verification failed"]
          /\ q.generateArg = None /\ q.usageArg = None /\ q.renderArg = None

\* The service has rejected one request's token and accepted another's.
C4_Witness ==
  /\ req[1].captchaVerified = Some(FALSE) /\ Done(req[1])
  /\ req[2].captchaVerified = Some(TRUE)

\* C5: a request that reached input validation and whose body fails the schema is
\* answered 400 'Invalid input data' with details the validator's issues, one per
\* missing required key, and calls no generator, telemetry or renderer; one whose
\* body passes calls the generator once, with the validated value: the body's keys
\* that the schema knows, and no other key of the body.
C5_InvalidInputIsBadRequest ==
  \A r \in Reqs :
    LET q == req[r]
        body == q.event.body
        missing == SeqRange(RequiredInputKeys) \ body.keys
    IN  /\ Failed(q, "InputValidate") =>
             /\ Done(q)
             /\ body.kind # "object" \/ missing # {}
             /\ q.response.statusCode = 400
             /\ q.response.body.error = "Invalid input data"
             /\ Len(q.response.body.details) > 0
             /\ SeqRange(q.response.body.details)
                  = IF body.kind = "object"
                    THEN {Issue(<<k>>, "Required") : k \in missing}
                    ELSE {Issue(<<>>, "Expected object")}
             /\ q.calls[Len(q.calls)] = "LeaseInputSchema.safeParse"
             /\ q.generateArg = None /\ q.usageArg = None /\ q.renderArg = None
        /\ Passed(q, "InputValidate") =>
             /\ body.kind = "object" /\ missing = {}
             /\ Count(q.calls, "generateLease") = 1
             /\ IsSome(q.generateArg)
             /\ Get(q.generateArg).keys = body.keys \cap InputSchemaKeys
             /\ Get(q.generateArg).captchaToken = body.captchaToken

\* One body lacking both required keys has been refused, and a body with a key the
\* schema does not know has passed and reached the generator.
C5_Witness ==
  /\ Failed(req[1], "InputValidate") /\ Len(req[1].response.body.details) = 2
  /\ Passed(req[2], "InputValidate") /\ "unknownKey" \in req[2].event.body.keys

\* The 422 message for the generator records of GenerateResults.
ExpectedMessage(leaseData) ==
  IF <<"landlord", "name">> \in leaseData.paths
  THEN "Missing or invalid fields: financials.monthlyRent. Please try again."
  ELSE "Missing or invalid fields: financials.monthlyRent, landlord.name. Please try again."

\* C6: a request whose generator returned a record that lacks a required field
\* fails output validation and is answered 422 'Invalid lease data generated';
\* details is the non-empty list of issues, one per missing field path; the message
\* lists every such path, joined by '.', and ends with the retry instruction; the
\* renderer (and telemetry) is not called.
C6_InvalidOutputIsUnprocessable ==
  \A r \in Reqs :
    LET q == req[r]
        missing == SeqRange(RequiredOutputPaths) \ q.leaseData.paths
    IN  Entered(q, "OutputValidate") =>
          /\ missing # {} <=> Failed(q, "OutputValidate")
          /\ Failed(q, "OutputValidate") =>
               /\ Done(q)
               /\ q.response.statusCode = 422
               /\ q.response.body.error = "Invalid lease data generated"
               /\ Len(q.response.body.details) = Cardinality(missing)
               /\ {d.path : d \in SeqRange(q.response.body.details)} = missing
               /\ q.response.body.message = ExpectedMessage(q.leaseData)
               /\ ~Called(q, "generateLeaseDocx") /\ q.renderArg = None
               /\ ~Called(q, "trackDailyCost")

\* The generator left out financials.monthlyRent for one request and both fields
\* for another; both are answered.
C6_Witness ==
  /\ Failed(req[1], "OutputValidate")
  /\ req[1].leaseData.paths = { <<"landlord", "name">> }
  /\ Failed(req[2], "OutputValidate") /\ req[2].leaseData.paths = {}

Base64Index(ch) == CHOOSE n \in 0..63 : Base64Char(n) = ch

\* The bytes a base64 string stands for.
RECURSIVE Base64Decode(_)
Base64Decode(chars) ==
  IF Len(chars) < 4 THEN <<>>
  ELSE
    LET a == Base64Index(chars[1])
        b == Base64Index(chars[2])
        first == a * 4 + b \div 16
    IN  IF chars[3] = "=" THEN << first >>
        ELSE LET c == Base64Index(chars[3])
                 second == (b % 16) * 16 + c \div 4
             IN  IF chars[4] = "=" THEN << first, second >>
                 ELSE << first, second, (c % 4) * 64 + Base64Index(chars[4]) >>
                      \o Base64Decode(SubSeq(chars, 5, Len(chars)))

\* What the claim says of a request answered 200: every stage was entered and
\* succeeded; the body is the base64 text of the renderer's bytes; the filename is
\* lease-<a time not after now>.docx; the rate-limit headers are those of the
\* request's own rate-limit decision.
SuccessResponseOf(q) ==
  /\ StageNames(q) = ExpectedStages
  /\ \A i \in 1..Len(q.stages) : q.stages[i].result = "ok"
  /\ IsSome(q.docxBuffer)
  /\ q.response.isBase64Encoded
  /\ Base64Decode(q.response.body) = Get(q.docxBuffer)
  /\ \E t \in 0..now :
       q.response.headers["Content-Disposition"]
         = "attachment; filename=\"lease-" \o ToString(t) \o ".docx\""
  /\ q.rateLimit.success
  /\ q.response.headers["X-Rate-Limit-Remaining"] = ToString(q.rateLimit.remaining)
  /\ q.response.headers["X-Rate-Limit-Reset"] = ToString(q.rateLimit.resetTime)

\* C7 as stated: every response with status 200 is that of a request in which
\* every stage succeeded, with the rendered body, filename and rate-limit headers.
\* (A preflight is answered 200 without any stage.)
C7_Every200IsSuccess ==
  \A r \in Reqs :
    (Done(req[r]) /\ req[r].response.statusCode = 200) => SuccessResponseOf(req[r])

\* C7, amended: every response with status 200 to a request that is no OPTIONS
\* preflight is that of a request in which every stage succeeded; its body is the
\* base64 text of exactly the renderer's bytes, its filename lease-<timestamp>.docx,
\* its X-Rate-Limit headers the values of the request's own rate-limit decision.
C7_Post200IsSuccess ==
  \A r \in Reqs :
    (Done(req[r]) /\ IsPost(req[r]) /\ req[r].response.statusCode = 200)
      => SuccessResponseOf(req[r])

\* A request is answered 200 after a later request of the same caller has used up
\* the quota its headers report.
C7_Witness ==
  /\ Done(req[1]) /\ IsPost(req[1]) /\ req[1].response.statusCode = 200
  /\ req[1].rateLimit.remaining = 1
  /\ IsPost(req[2]) /\ req[2].event.caller = req[1].event.caller
  /\ req[2].rateLimit.success /\ req[2].rateLimit.remaining = 0
  /\ req[2].rateLimit.resetTime = req[1].rateLimit.resetTime

\* The rate limiter's decisions for one caller, oldest first.
DecisionsOf(c) == SelectSeq(decisions, LAMBDA d : d.caller = c)

\* The start of the window the i-th decision of D falls in: the first request opens
\* a window; a request at or after the end of the window before it opens the next.
RECURSIVE WindowStart(_, _)
WindowStart(D, i) ==
  IF i = 1 THEN D[1].at
  ELSE LET w == WindowStart(D, i - 1)
       IN  IF D[i].at >= w + Window THEN D[i].at ELSE w

\* The requests before the i-th that were allowed in the i-th's window.
AllowedBefore(D, i) ==
  Cardinality({j \in 1..(i - 1) :
                 D[j].decision.success /\ WindowStart(D, j) = WindowStart(D, i)})

\* The rate limiter's decisions, caller by caller: a request passes exactly when
\* fewer than Quota requests of its window have passed before it, so the first Quota
\* pass and the next is refused with 429; an allowed request reports the quota less
\* the requests allowed in the window, itself included, so remaining falls by one
\* per allowed request and starts again from the full quota in a new window.
QuotaDecisions ==
  \A c \in Callers :
    LET D == DecisionsOf(c)
    IN  \A i \in 1..Len(D) :
          LET d == D[i].decision
              k == AllowedBefore(D, i)
          IN  /\ d.success <=> k < Quota
              /\ d.success => d.remaining = Quota - k - 1
              /\ ~d.success => d.status = 429 /\ k = Quota
              /\ d.resetTime = WindowStart(D, i) + Window

\* A caller's counter falls only in a step at or after the end of its window.
CounterFallsOnlyAtRollover ==
  \A c \in Callers :
    store'[c].count < store[c].count => now >= store[c].resetTime

\* C8: for each caller and the configured quota, exactly the first Quota requests
\* of a window pass the rate-limit gate and the next is refused (429); remaining
\* falls by exactly one per allowed request; the caller's counter is never
\* decremented except by window rollover; in a new window remaining is counted from
\* the full quota again.
C8_QuotaPerWindow == [] QuotaDecisions /\ [][CounterFallsOnlyAtRollover]_vars

\* One caller: Quota requests allowed with remaining Quota-1 .. 0, the next refused,
\* and after the window a request allowed with remaining Quota-1 again.
C8_Witness ==
  LET D == DecisionsOf("10.0.0.1")
  IN  /\ Len(D) = Quota + 2
      /\ \A i \in 1..Quota :
           D[i].decision.success /\ D[i].decision.remaining = Quota - i
      /\ ~D[Quota + 1].decision.success
      /\ D[Quota + 2].decision.success
      /\ D[Quota + 2].decision.remaining = Quota - 1
      /\ D[Quota + 2].at >= D[1].decision.resetTime

\* C9: whatever is thrown inside the try block (by JSON.parse, by reading the
\* token, by the verifier, by generation or by rendering) is answered by the
\* handler with status 500 and error 'Internal server error': the handler returns,
\* its promise never rejects, and a failed generation or rendering is always such
\* a throw.
C9_ThrownIsInternalError ==
  \A r \in Reqs :
    LET q == req[r]
    IN  /\ q.pc \in {"idle", "rateLimit", "verify", "generate", "render", "done"}
        /\ (Failed(q, "Generate") \/ Failed(q, "Render")) => IsSome(q.thrown)
        /\ IsSome(q.thrown) =>
             /\ Done(q)
             /\ q.response.statusCode = 500
             /\ q.response.headers = Headers
             /\ q.response.body.success = FALSE
             /\ q.response.body.error = "Internal server error"

\* Generation has thrown in one request and rendering in another.
C9_Witness ==
  /\ Failed(req[1], "Generate") /\ IsSome(req[1].thrown) /\ Done(req[1])
  /\ Failed(req[2], "Render") /\ IsSome(req[2].thrown) /\ Done(req[2])

\* C10: in production mode any two requests answered 500 have the same response
\* body, whatever was thrown in each.
C10_ProductionErrorsAreOpaque ==
  nodeEnv = "production" =>
    \A r1, r2 \in Reqs :
      (/\ Done(req[r1]) /\ req[r1].response.statusCode = 500
       /\ Done(req[r2]) /\ req[r2].response.statusCode = 500)
        => req[r1].response.body = req[r2].response.body

\* What the catch block takes for the stack of the value thrown (line 132).
StackOf(error) == IF error.isError THEN error.stack ELSE "No stack trace"

\* C11: the body of a 500 response has a details key exactly when NODE_ENV is
\* 'development', and then details is the stack of the value thrown; in every
\* other mode the body has no details key. No body of a 500 response in another
\* mode holds the stack in any field.
C11_StackOnlyInDevelopment ==
  \A r \in Reqs :
    LET q == req[r]
    IN  (Done(q) /\ q.response.statusCode = 500) =>
          /\ IsSome(q.thrown)
          /\ ("details" \in DOMAIN q.response.body) <=> (nodeEnv = "development")
          /\ "details" \in DOMAIN q.response.body =>
               q.response.body.details = StackOf(Get(q.thrown))
          /\ nodeEnv # "development" =>
               \A k \in DOMAIN q.response.body \ {"success"} :
                 q.response.body[k] # StackOf(Get(q.thrown))

\* Outside development, an Error with a stack was thrown and the 500 response has
\* no details.
C11_Witness ==
  /\ nodeEnv = "production"
  /\ Done(req[1]) /\ req[1].response.statusCode = 500
  /\ IsSome(req[1].thrown) /\ Get(req[1].thrown).isError
  /\ "details" \notin DOMAIN req[1].response.body

\* C12: every request answered with a failure (429, 400, 403, 422 or 500) has
\* logged exactly one diagnostic (one console.error call) by the time it is
\* answered.
C12_OneDiagnosticPerFailure ==
  \A r \in Reqs :
    LET q == req[r]
    IN  (Done(q) /\ IsPost(q) /\ q.response.statusCode # 200) => q.errorLogs = 1

\* C13: a request that passed the rate limit and whose body is absent or is no
\* JSON text is answered 400, whether or not the captcha is required.
C13_MalformedBodyIsBadRequest ==
  \A r \in Reqs :
    LET q == req[r]
    IN  (/\ Done(q) /\ IsPost(q) /\ q.rateLimit.success
         /\ q.event.body.kind \in {"null", "malformed"})
          => q.response.statusCode = 400

\* C14: a request whose generateLease call has returned has called logTokenUsage
\* and trackDailyCost once each, with the usage and cost of that call; a request
\* whose generateLease call has not returned, or was not made, has called neither.
C14_TelemetryPerGeneration ==
  \A r \in Reqs :
    LET q == req[r]
    IN  IF Passed(q, "Generate")
        THEN /\ Count(q.calls, "logTokenUsage") = 1
             /\ Count(q.calls, "trackDailyCost") = 1
             /\ IsSome(q.usageArg) /\ IsSome(q.costArg)
        ELSE /\ ~Called(q, "logTokenUsage") /\ ~Called(q, "trackDailyCost")
             /\ ~IsSome(q.usageArg) /\ ~IsSome(q.costArg)

IsPreflight(q) == q.pc # "idle" /\ q.event.httpMethod = "OPTIONS"

\* C15: an OPTIONS request is answered at once with status 200, an empty body and
\* exactly the CORS headers; it enters no stage and calls nothing (no rate
\* limiter, verifier, validator, generator, telemetry, renderer); and the step that
\* answers it leaves the rate-limit counters, the decisions taken and the
\* telemetry as they were.
C15_PreflightRunsNoStage ==
  /\ [](\A r \in Reqs :
          LET q == req[r]
          IN  IsPreflight(q) =>
                /\ Done(q)
                /\ q.response = [statusCode |-> 200, headers |-> Headers, body |-> ""]
                /\ q.stages = <<>> /\ q.calls = <<>>
                /\ q.errorLogs = 0 /\ ~IsSome(q.thrown))
  /\ [][\A r \in Reqs :
          (req[r].pc = "idle" /\ IsPreflight(req'[r]))
            => store' = store /\ decisions' = decisions /\ telemetry' = telemetry]_vars

\* A preflight has been answered after a POST of the same caller was counted: one
\* decision taken, one request counted more than at the start.
C15_Witness ==
  /\ IsPost(req[1]) /\ req[1].rateLimit.success
  /\ IsPreflight(req[2]) /\ Done(req[2])
  /\ req[2].event.caller = req[1].event.caller
  /\ Len(decisions) = 1
  /\ store[req[1].event.caller].count = Quota - req[1].rateLimit.remaining

\* C16: the response of every answered request that went through the rate-limit
\* stage has the X-Rate-Limit-Remaining and X-Rate-Limit-Reset headers, with the
\* remaining quota and reset time of that request's rate-limit decision, whatever
\* the status of the response.
C16_BookkeepingOnEveryResponse ==
  \A r \in Reqs :
    LET q == req[r]
    IN  (Done(q) /\ Entered(q, "RateLimit")) =>
          /\ {"X-Rate-Limit-Remaining", "X-Rate-Limit-Reset"}
               \subseteq DOMAIN q.response.headers
          /\ q.response.headers["X-Rate-Limit-Remaining"]
               = ToString(q.rateLimit.remaining)
          /\ q.response.headers["X-Rate-Limit-Reset"]
               = ToString(q.rateLimit.resetTime)

\* The statuses whose responses carry the rate-limit headers.
BookkeepingOnlyOn200And429 ==
  \A r \in Reqs :
    LET q == req[r]
    IN  (Done(q) /\ Entered(q, "RateLimit")) =>
          ({"X-Rate-Limit-Remaining", "X-Rate-Limit-Reset"}
              \subseteq DOMAIN q.response.headers
            <=> q.response.statusCode \in {200, 429})

\* The position of the first call of fn among the calls of q (0: not called).
FirstCall(q, fn) ==
  IF Called(q, fn) THEN CHOOSE i \in 1..Len(q.calls) :
                          /\ q.calls[i] = fn
                          /\ \A j \in 1..(i - 1) : q.calls[j] # fn
  ELSE 0

\* The cost recorded for the requests of S.
RECURSIVE RecordedCost(_)
RecordedCost(S) ==
  IF S = {} THEN 0
  ELSE LET r == CHOOSE x \in S : TRUE
       IN  (IF IsSome(req[r].costArg) THEN Get(req[r].costArg) ELSE 0)
           + RecordedCost(S \ {r})

\* C17: a request that has called generateLeaseDocx has called logTokenUsage and
\* trackDailyCost before it, once each; when rendering has failed the request is
\* answered 500 and still has one call of each. The telemetry holds one usage
\* record and the cost of every request that recorded, whether its rendering
\* failed or not, and the step that follows the rendering leaves it unchanged.
C17_CostRecordedBeforeRender ==
  /\ [](\A r \in Reqs :
          LET q == req[r]
          IN  /\ Called(q, "generateLeaseDocx") =>
                   /\ Count(q.calls, "logTokenUsage") = 1
                   /\ Count(q.calls, "trackDailyCost") = 1
                   /\ FirstCall(q, "logTokenUsage") < FirstCall(q, "generateLeaseDocx")
                   /\ FirstCall(q, "trackDailyCost") < FirstCall(q, "generateLeaseDocx")
                   /\ IsSome(q.usageArg) /\ IsSome(q.costArg)
              /\ Failed(q, "Render") =>
                   /\ Called(q, "generateLeaseDocx")
                   /\ Done(q) /\ q.response.statusCode = 500)
  /\ [](/\ telemetry.logged = Cardinality({r \in Reqs : IsSome(req[r].usageArg)})
        /\ telemetry.dailyCost = RecordedCost(Reqs))
  /\ [][\A r \in Reqs :
          (req[r].pc = "render" /\ req'[r].pc # "render") => telemetry' = telemetry]_vars

\* Rendering has failed for a request whose generation cost 2: the day's total
\* still holds that cost.
C17_Witness ==
  /\ Failed(req[1], "Render") /\ Done(req[1])
  /\ req[1].costArg = Some(2)
  /\ req[2].pc = "idle"
  /\ telemetry = [logged |-> 1, dailyCost |-> 2]

\* C18: a request calls generateLease at most once, whatever its outcome; a
\* generateLease that rejected has ended the request with 500 'Internal server
\* error', and a request whose generated lease failed the output validation has
\* ended with its single call.
C18_GeneratorCalledAtMostOnce ==
  \A r \in Reqs :
    LET q == req[r]
    IN  /\ Count(q.calls, "generateLease") <= 1
        /\ Entered(q, "Generate") <=> Count(q.calls, "generateLease") = 1
        /\ Failed(q, "Generate") =>
             /\ Done(q) /\ IsSome(q.thrown)
             /\ q.response.statusCode = 500
             /\ ~Entered(q, "OutputValidate")
        /\ Failed(q, "OutputValidate") => Done(q)

\* The generator has rejected in one request and returned an invalid lease in the
\* other; each was called once.
C18_Witness ==
  /\ Failed(req[1], "Generate") /\ Done(req[1])
  /\ Count(req[1].calls, "generateLease") = 1
  /\ Failed(req[2], "OutputValidate") /\ Done(req[2])
  /\ Count(req[2].calls, "generateLease") = 1

\* The terminal outcomes: the preflight's 200, and for any other request 200,
\* 400, 403, 422, 429 or 500.
TerminalOutcome(q) ==
  IF IsPreflight(q) THEN q.response.statusCode = 200
  ELSE q.response.statusCode \in {200, 400, 403, 422, 429, 500}

\* C19: when every awaited call settles, from some point on every request the
\* handler was invoked for stays answered; an invocation never goes back to not
\* invoked; a request has a response exactly when the handler has returned, the
\* response is one of the terminal outcomes, and once given it never changes (no
\* second response).
C19_ExactlyOneResponse ==
  /\ <>[](\A r \in Reqs : req[r].pc # "idle" => Done(req[r]))
  /\ [](\A r \in Reqs :
          LET q == req[r]
          IN  /\ q.response.statusCode # 0 <=> Done(q)
              /\ Done(q) => TerminalOutcome(q))
  /\ [][\A r \in Reqs :
          /\ req[r].pc # "idle" => req'[r].pc # "idle"
          /\ Done(req[r]) => req'[r] = req[r]]_vars

\* Both requests answered, one after all its awaits settled (200), one refused.
C19_Witness ==
  /\ Done(req[1]) /\ req[1].response.statusCode = 200 /\ IsPost(req[1])
  /\ Done(req[2]) /\ req[2].response.statusCode = 429

\* The request is suspended at verifyCaptcha, generateLease or generateLeaseDocx.
Suspended(q) == q.pc \in {"verify", "generate", "render"}

\* The next step of invocation r can be taken: the handler can be invoked, or
\* resumed at the await it is suspended at.
CanAdvance(r) ==
  /\ req[r].pc = "idle" => ENABLED (\E event \in Events : LowestIdle(r) /\ Invoke(r, event))
  /\ req[r].pc = "rateLimit" => ENABLED ResumeRateLimit(r)
  /\ req[r].pc = "verify" =>
       \A outcome \in VerifyOutcomes : ENABLED ResumeVerifyCaptcha(r, outcome)
  /\ req[r].pc = "generate" =>
       \A outcome \in GenerateOutcomes : ENABLED ResumeGenerateLease(r, outcome)
  /\ req[r].pc = "render" =>
       \A outcome \in RenderOutcomes : ENABLED ResumeGenerateLeaseDocx(r, outcome)

\* C20: while a request is suspended at verifyCaptcha, generateLease or
\* generateLeaseDocx, every other request can take its next step, whatever it is,
\* up to its response; and a step of one request changes nothing of another
\* request, so the suspended request holds nothing the other waits for.
C20_SuspendedBlocksNobody ==
  /\ [](\A r1, r2 \in Reqs :
          (r1 # r2 /\ Suspended(req[r1])) => CanAdvance(r2))
  /\ [][\A r1, r2 \in Reqs :
          (r1 # r2 /\ req'[r2] # req[r2]) => req'[r1] = req[r1]]_vars

\* A request invoked after another has gone through every stage to its 200
\* response while the first is still suspended at its first await behind the
\* gate.
C20_Witness ==
  /\ captchaRequired
  /\ req[1].pc = "verify"
  /\ Done(req[2]) /\ IsPost(req[2]) /\ req[2].response.statusCode = 200

====
